---------------------------- MODULE Spec2Model ----------------------------
(***************************************************************************)
(* Model of the flight dashboard of wiseman/ice-air (frontend).            *)
(*                                                                         *)
(* The client parses an uploaded CSV (handleFileUpload), validates and     *)
(* sorts the rows (processInitialData), filters them by date range,        *)
(* destination airport and origin-destination pair (filteredFlights) and   *)
(* aggregates the filtered list (aggregateFlightData).  The earlier        *)
(* landing-visits version of the client processes the rows in one step     *)
(* (processData).                                                          *)
(*                                                                         *)
(* Time is counted in whole hours since the Unix epoch (UTC); the local    *)
(* time zone is a fixed offset tz in hours.  A calendar date is a day      *)
(* number since the epoch: the ISO date string "YYYY-MM-DD" of a Date and  *)
(* a CalendarDate are both modelled by that number.                        *)
(*                                                                         *)
(* A JavaScript object used as a map is a sequence of <<key, value>>       *)
(* entries in property-creation order; ObjectEntries gives the order in    *)
(* which Object.entries enumerates it.  null, undefined and the empty      *)
(* string (all falsy for the code) are the empty string "".                *)
(***************************************************************************)
EXTENDS Integers, Sequences, FiniteSets, TLC

VARIABLES
    files,            \* the files the user selects, in order: each the outcome of
                      \* Papa.parse ([rows, header, readable]) for that file
    tz,               \* offset of the local time zone from UTC, in hours
    selected,         \* the number of files selected so far
    pending,          \* the files whose Papa.parse is outstanding (positions in files)
    loading,          \* App state: loading
    error,            \* App state: error ("" for null)
    initialData,      \* App state: <<>> for null, else <<[rawFlights, earliestTime, latestTime]>>
    dateRange,        \* App state: <<>> for null, else <<start, end>> (calendar days)
    selectedAirport,  \* App state: destination filter, "all" for none
    selectedPair,     \* App state: pair filter, "none" for none
    dirty,            \* TRUE when state changed since the last render
    filteredFlights,  \* useMemo value of the last render
    displayedData,    \* useMemo value of the last render
    airportInputValue,  \* App state: text of the destination combo box
    pairInputValue,     \* App state: text of the pair combo box
    airportInputTimer,  \* airportInputTimer.current: <<>> when no debounced update
                        \* is scheduled, else <<the text it will set>>
    pairInputTimer,     \* pairInputTimer.current, the same for the pair combo box
    typedSince,         \* history: the combo boxes ("airport", "pair") the user
                        \* typed into since a handler or a render last set
                        \* their text
    showDetailedStats,  \* SummaryStatistics state: the detailed tables are shown
    callsignPage,       \* SummaryStatistics state: page of the callsign table
    registrationPage,   \* SummaryStatistics state: page of the registration table
    visits,           \* landing-visits version: the file the user selects, the
                      \* outcome of Papa.parse ([rows, header, readable])
    visitsApp         \* landing-visits version: App state [data, loading, error],
                      \* data <<>> for null, else <<processData(visits.rows)>>

\* The inputs: they never change
inputVars == <<files, tz, visits>>

\* The texts of the two combo boxes
textVars == <<airportInputValue, pairInputValue>>

\* The state of SummaryStatistics
statsVars == <<showDetailedStats, callsignPage, registrationPage>>

\* The debounce timers of the two combo boxes
timerVars == <<airportInputTimer, pairInputTimer>>

vars == <<files, tz, selected, pending, loading, error, initialData, dateRange,
          selectedAirport, selectedPair, dirty, filteredFlights, displayedData,
          airportInputValue, pairInputValue, airportInputTimer, pairInputTimer,
          typedSince, showDetailedStats, callsignPage, registrationPage,
          visits, visitsApp>>

----------------------------------------------------------------------------
(* Bounds of the model *)

\* longest list of CSV rows drawn freely from a catalogue
MaxRows == 3
\* longest list of CSV rows of the specification with filter changes
MaxFilterRows == 2
\* longest roster of flights to pairwise distinct airports
MaxRoster == 21
\* longest list of further rows added before or after a roster
MaxExtra == 2
\* most files selected one after another
MaxFiles == 2
\* longest list of CSV rows of the landing-visits version
MaxVisits == 3

(* Program constants *)

\* .slice(0, 20) of sortedAirports and sortedPairs
TopListLimit == 20
\* .slice(0, 5) of topCallsigns, topIcaos, topRegistrations
TopIdLimit == 5
\* Array(7).fill(0)
DaysPerWeek == 7
\* Array(24).fill(0)
HoursPerDay == 24
\* getDay() of 1970-01-01 (a Thursday)
EpochWeekday == 4

----------------------------------------------------------------------------
(* Sequences *)

Min(a, b) == IF a <= b THEN a ELSE b

Max(a, b) == IF a >= b THEN a ELSE b

Take(s, n) == SubSeq(s, 1, Min(n, Len(s)))

Zeros(n) == [i \in 1..n |-> 0]

RECURSIVE SeqSum(_)
SeqSum(s) == IF s = <<>> THEN 0 ELSE Head(s) + SeqSum(Tail(s))

SeqsUpTo(S, n) == UNION {[1..k -> S] : k \in 0..n}

Range(s) == {s[i] : i \in 1..Len(s)}

----------------------------------------------------------------------------
(* JavaScript objects used as maps *)

Has(obj, k) == \E i \in 1..Len(obj) : obj[i][1] = k

Get(obj, k) == obj[CHOOSE i \in 1..Len(obj) : obj[i][1] = k][2]

\* obj[k] || dflt
GetOr(obj, k, dflt) == IF Has(obj, k) THEN Get(obj, k) ELSE dflt

\* obj[k] = v
Put(obj, k, v) ==
    IF Has(obj, k)
    THEN [i \in 1..Len(obj) |-> IF obj[i][1] = k THEN <<k, v>> ELSE obj[i]]
    ELSE Append(obj, <<k, v>>)

ObjectKeySet(obj) == {obj[i][1] : i \in 1..Len(obj)}

\* The keys of the model that are canonical array indices ("7", "40"), with
\* their numeric value.  Object.entries enumerates such keys first, in
\* ascending numeric order, and the other string keys after them in
\* property-creation order.
ArrayIndexKeys == ("7" :> 7 @@ "40" :> 40)

IsArrayIndex(k) == k \in DOMAIN ArrayIndexKeys

RECURSIVE InsertIndexKey(_, _)
InsertIndexKey(sorted, e) ==
    IF sorted = <<>> THEN <<e>>
    ELSE IF ArrayIndexKeys[e[1]] < ArrayIndexKeys[Head(sorted)[1]]
         THEN <<e>> \o sorted
         ELSE <<Head(sorted)>> \o InsertIndexKey(Tail(sorted), e)

RECURSIVE IndexKeysAscending(_)
IndexKeysAscending(es) ==
    IF es = <<>> THEN <<>>
    ELSE InsertIndexKey(IndexKeysAscending(Tail(es)), Head(es))

ObjectEntries(obj) ==
    IndexKeysAscending(SelectSeq(obj, LAMBDA e : IsArrayIndex(e[1])))
        \o SelectSeq(obj, LAMBDA e : ~IsArrayIndex(e[1]))

\* Array.prototype.sort with the comparator ([, countA], [, countB]) =>
\* countB - countA: a stable sort of [key, count] entries, largest count first
RECURSIVE InsertByCount(_, _)
InsertByCount(sorted, e) ==
    IF sorted = <<>> THEN <<e>>
    ELSE IF Head(sorted)[2] >= e[2]
         THEN <<Head(sorted)>> \o InsertByCount(Tail(sorted), e)
         ELSE <<e>> \o sorted

RECURSIVE SortByCountDesc(_)
SortByCountDesc(es) ==
    IF es = <<>> THEN <<>>
    ELSE InsertByCount(SortByCountDesc(SubSeq(es, 1, Len(es) - 1)), es[Len(es)])

\* Array.prototype.sort with the comparator ([, dataA], [, dataB]) =>
\* dataB.count - dataA.count: the same for [key, {count, icao}] entries
RECURSIVE InsertByDataCount(_, _)
InsertByDataCount(sorted, e) ==
    IF sorted = <<>> THEN <<e>>
    ELSE IF Head(sorted)[2].count >= e[2].count
         THEN <<Head(sorted)>> \o InsertByDataCount(Tail(sorted), e)
         ELSE <<e>> \o sorted

RECURSIVE SortByDataCountDesc(_)
SortByDataCountDesc(es) ==
    IF es = <<>> THEN <<>>
    ELSE InsertByDataCount(SortByDataCountDesc(SubSeq(es, 1, Len(es) - 1)),
                           es[Len(es)])

----------------------------------------------------------------------------
(* Strings *)

\* String.prototype.trim on the strings of the model
TrimTable == (" " :> "" @@ " X1" :> "X1" @@ "X1 " :> "X1" @@ " N1" :> "N1")

trim(s) == IF s \in DOMAIN TrimTable THEN TrimTable[s] ELSE s

\* String.prototype.toLowerCase on the strings of the model
LowerTable == ("AB" :> "ab" @@ "Cd" :> "cd")

toLowerCase(s) == IF s \in DOMAIN LowerTable THEN LowerTable[s] ELSE s

\* `${origin}-${destination}`
PairKey(origin, destination) == origin \o "-" \o destination

----------------------------------------------------------------------------
(* Dates *)

\* Date.prototype.getDay: day of the week in the local time zone, 0 = Sunday
getDay(t) == (((t + tz) \div HoursPerDay) + EpochWeekday) % DaysPerWeek

\* Date.prototype.getHours: hour of the day in the local time zone
getHours(t) == (t + tz) % HoursPerDay

\* date.toISOString().split('T')[0]: the UTC calendar day of t
UTCDateString(t) == t \div HoursPerDay

\* new CalendarDate(getFullYear(), getMonth() + 1, getDate()): the local day of t
getCalendarDate(t) == (t + tz) \div HoursPerDay

\* calendarDate.toDate(getLocalTimeZone()) followed by setHours(0, 0, 0, 0)
StartOfLocalDay(d) == d * HoursPerDay - tz

\* The mutation of EndOfLocalDay that forgets setHours(23, 59, 59, 999)
StartOfEndDay(d) == d * HoursPerDay - tz

\* calendarDate.toDate(getLocalTimeZone()) followed by setHours(23, 59, 59, 999):
\* the last whole hour that begins before it
EndOfLocalDay(d) == d * HoursPerDay + (HoursPerDay - 1) - tz

----------------------------------------------------------------------------
(* Flight records *)

\* A CSV row: landing_time is an hour count, negative when the cell is empty
\* or not parseable by new Date(); the other columns are strings.  The
\* columns takeoff_time (converted, never read by the aggregation) and the
\* columns the code never reads are left out.
Flights(T, I, O, D, C, R) ==
    [landing_time : T, icao : I, origin : O, destination : D,
     callsign : C, registration : R]

\* The mutation of HasValidLandingTime that keeps every row
AcceptsAnyLandingTime(flight) == TRUE

\* The predicate of flights.filter in processInitialData:
\* time is present and new Date(time) is a valid date
HasValidLandingTime(flight) == flight.landing_time >= 0

\* Array.prototype.sort with (a, b) => a.landing_time - b.landing_time:
\* a stable sort by landing time, earliest first
RECURSIVE InsertByLandingTime(_, _)
InsertByLandingTime(sorted, f) ==
    IF sorted = <<>> THEN <<f>>
    ELSE IF Head(sorted).landing_time <= f.landing_time
         THEN <<Head(sorted)>> \o InsertByLandingTime(Tail(sorted), f)
         ELSE <<f>> \o sorted

RECURSIVE SortByLandingTime(_)
SortByLandingTime(fs) ==
    IF fs = <<>> THEN <<>>
    ELSE InsertByLandingTime(SortByLandingTime(SubSeq(fs, 1, Len(fs) - 1)),
                             fs[Len(fs)])

\* The mutation of validFlights that forgets the sort
UnsortedValidFlights(flights) == SelectSeq(flights, HasValidLandingTime)

\* validFlights of processInitialData: filter, map (a no-op on the modelled
\* columns: registration || null is "" for ""), sort
ValidFlights(flights) ==
    SortByLandingTime(SelectSeq(flights, HasValidLandingTime))

\* processInitialData(flights), defined when some row is valid; it throws
\* exactly when ProcessInitialDataThrows
ProcessInitialDataThrows(flights) == ValidFlights(flights) = <<>>

processInitialData(flights) ==
    LET validFlights == ValidFlights(flights)
    IN  [rawFlights   |-> validFlights,
         earliestTime |-> validFlights[1].landing_time,
         latestTime   |-> validFlights[Len(validFlights)].landing_time]

----------------------------------------------------------------------------
(* aggregateFlightData *)

\* The accumulators declared before the loop
EmptyAccumulators ==
    [airportCounts |-> <<>>, airportPairs |-> <<>>,
     landingsByDay |-> Zeros(DaysPerWeek), landingsByHour |-> Zeros(HoursPerDay),
     airportLandingsByDay |-> <<>>, airportLandingsByHour |-> <<>>,
     pairLandingsByDay |-> <<>>, pairLandingsByHour |-> <<>>,
     uniqueIcaos |-> {}, uniqueCallsigns |-> {}, uniqueRegistrations |-> {},
     callsignCounts |-> <<>>, icaoCounts |-> <<>>, registrationCounts |-> <<>>,
     arrivalsFrom |-> <<>>]

\* array[index]++ on a zero-based array
Increment(array, index) == [array EXCEPT ![index + 1] = @ + 1]

\* The mutation of IncrementIn that starts from a fresh array every time
RestartIn(obj, k, n, index) == Put(obj, k, Increment(Zeros(n), index))

\* if (!obj[k]) obj[k] = Array(n).fill(0); obj[k][index]++
IncrementIn(obj, k, n, index) ==
    Put(obj, k, Increment(GetOr(obj, k, Zeros(n)), index))

\* obj[k] = (obj[k] || 0) + 1
CountUp(obj, k) == Put(obj, k, GetOr(obj, k, 0) + 1)

\* The mutation of TrackRegistration that never counts past the first flight
TrackRegistrationOnce(registrationCounts, registration, lowerIcao) ==
    IF registration = "" \/ trim(registration) = "" THEN registrationCounts
    ELSE Put(registrationCounts, trim(registration),
             [count |-> 1, icao |-> lowerIcao])

\* registrationCounts after the registration branch of the loop body
TrackRegistration(registrationCounts, registration, lowerIcao) ==
    LET trimmedRegistration == trim(registration)
    IN  IF registration = "" \/ trimmedRegistration = "" THEN registrationCounts
        ELSE IF ~Has(registrationCounts, trimmedRegistration)
        THEN Put(registrationCounts, trimmedRegistration,
                 [count |-> 1, icao |-> lowerIcao])
        ELSE Put(registrationCounts, trimmedRegistration,
                 [Get(registrationCounts, trimmedRegistration)
                      EXCEPT !.count = @ + 1])

\* uniqueRegistrations after the registration branch of the loop body
AddRegistration(uniqueRegistrations, registration) ==
    IF registration = "" \/ trim(registration) = "" THEN uniqueRegistrations
    ELSE uniqueRegistrations \cup {trim(registration)}

\* callsignCounts after the callsign branch of the loop body
TrackCallsign(callsignCounts, callsign) ==
    IF callsign = "" \/ trim(callsign) = "" THEN callsignCounts
    ELSE CountUp(callsignCounts, trim(callsign))

\* uniqueCallsigns after the callsign branch of the loop body
AddCallsign(uniqueCallsigns, callsign) ==
    IF callsign = "" \/ trim(callsign) = "" THEN uniqueCallsigns
    ELSE uniqueCallsigns \cup {trim(callsign)}

\* icaoCounts after the aircraft identifier branch of the loop body
TrackIcao(icaoCounts, lowerIcao) ==
    IF lowerIcao = "" THEN icaoCounts ELSE CountUp(icaoCounts, lowerIcao)

\* uniqueIcaos after the aircraft identifier branch of the loop body
AddIcao(uniqueIcaos, lowerIcao) ==
    IF lowerIcao = "" THEN uniqueIcaos ELSE uniqueIcaos \cup {lowerIcao}

\* The mutation of CountsAsPair that takes a flight back to its origin for a
\* pair
HasOrigin(origin, destination) == origin # ""

\* if (origin && origin !== destination): the flight counts for a pair
CountsAsPair(origin, destination) == origin # "" /\ origin # destination

\* The mutation of TrackArrival that files a flight under its origin
TrackDeparture(arrivalsFrom, origin, destination) ==
    IF origin = "" \/ origin = destination THEN arrivalsFrom
    ELSE Put(arrivalsFrom, origin,
             CountUp(GetOr(arrivalsFrom, origin, <<>>), destination))

\* arrivalsFrom after the pair branch of the loop body
TrackArrival(arrivalsFrom, origin, destination) ==
    IF ~CountsAsPair(origin, destination) THEN arrivalsFrom
    ELSE Put(arrivalsFrom, destination,
             CountUp(GetOr(arrivalsFrom, destination, <<>>), origin))

\* The body of flights.forEach(flight => ...) of the main loop
CountFlight(acc, flight) ==
    IF flight.destination = "" THEN acc
    ELSE LET dayOfWeek == getDay(flight.landing_time)
             hourOfDay == getHours(flight.landing_time)
             lowerIcao == toLowerCase(flight.icao)
             origin == flight.origin
             destination == flight.destination
             isPair == CountsAsPair(origin, destination)
             pair == PairKey(origin, destination)
         IN  [uniqueIcaos |-> AddIcao(acc.uniqueIcaos, lowerIcao),
              icaoCounts |-> TrackIcao(acc.icaoCounts, lowerIcao),
              uniqueCallsigns |-> AddCallsign(acc.uniqueCallsigns, flight.callsign),
              callsignCounts |-> TrackCallsign(acc.callsignCounts, flight.callsign),
              uniqueRegistrations |->
                  AddRegistration(acc.uniqueRegistrations, flight.registration),
              registrationCounts |->
                  TrackRegistration(acc.registrationCounts, flight.registration,
                                    lowerIcao),
              airportCounts |-> CountUp(acc.airportCounts, destination),
              landingsByDay |-> Increment(acc.landingsByDay, dayOfWeek),
              landingsByHour |-> Increment(acc.landingsByHour, hourOfDay),
              airportLandingsByDay |->
                  IncrementIn(acc.airportLandingsByDay, destination,
                              DaysPerWeek, dayOfWeek),
              airportLandingsByHour |->
                  IncrementIn(acc.airportLandingsByHour, destination,
                              HoursPerDay, hourOfDay),
              airportPairs |->
                  IF isPair THEN CountUp(acc.airportPairs, pair)
                  ELSE acc.airportPairs,
              pairLandingsByDay |->
                  IF isPair
                  THEN IncrementIn(acc.pairLandingsByDay, pair, DaysPerWeek, dayOfWeek)
                  ELSE acc.pairLandingsByDay,
              pairLandingsByHour |->
                  IF isPair
                  THEN IncrementIn(acc.pairLandingsByHour, pair, HoursPerDay, hourOfDay)
                  ELSE acc.pairLandingsByHour,
              arrivalsFrom |-> TrackArrival(acc.arrivalsFrom, origin, destination)]

\* flights.forEach over the list, from the accumulators acc
RECURSIVE CountFlights(_, _)
CountFlights(acc, flights) ==
    IF flights = <<>> THEN acc
    ELSE CountFlights(CountFlight(acc, Head(flights)), Tail(flights))

\* flightsByDate[dateString] || []
TodaysFlights(flights, dateString) ==
    SelectSeq(flights, LAMBDA f : UTCDateString(f.landing_time) = dateString)

\* dailyUniqueAircraft.size after todaysFlights.forEach
DailyUniqueAircraft(todaysFlights) ==
    Cardinality({toLowerCase(todaysFlights[i].icao) : i \in 1..Len(todaysFlights)}
                    \ {""})

\* dailyLandings after todaysFlights.forEach
DailyLandings(todaysFlights) ==
    Len(SelectSeq(todaysFlights, LAMBDA f : f.destination # ""))

\* while (currentDate <= endLoopDate) { ... }: the three daily arrays
RECURSIVE DailyActivity(_, _, _, _)
DailyActivity(flights, currentDate, endLoopDate, daily) ==
    IF currentDate > endLoopDate THEN daily
    ELSE LET todaysFlights == TodaysFlights(flights, currentDate)
         IN  DailyActivity(flights, currentDate + 1, endLoopDate,
                [dailyLabels |-> Append(daily.dailyLabels, currentDate),
                 dailyUniqueAircraftCounts |->
                     Append(daily.dailyUniqueAircraftCounts,
                            DailyUniqueAircraft(todaysFlights)),
                 dailyTotalLandings |->
                     Append(daily.dailyTotalLandings, DailyLandings(todaysFlights))])

NoDailyActivity ==
    [dailyLabels |-> <<>>, dailyUniqueAircraftCounts |-> <<>>,
     dailyTotalLandings |-> <<>>]

\* minTime, maxTime: the landing times of the first and of the last flight
DailySeries(flights) ==
    DailyActivity(flights,
                  UTCDateString(flights[1].landing_time),
                  UTCDateString(flights[Len(flights)].landing_time),
                  NoDailyActivity)

\* Object.keys(obj).sort(): only membership is ever read (includes)
SortedKeys(obj) == ObjectKeySet(obj)

\* .map(([registration, data]) => [registration, data.count])
RegistrationCountPairs(es) == [i \in 1..Len(es) |-> <<es[i][1], es[i][2].count>>]

\* .map(([registration, data]) => ({registration, count, icao}))
RegistrationDetails(es) ==
    [i \in 1..Len(es) |->
        [registration |-> es[i][1], count |-> es[i][2].count,
         icao |-> es[i][2].icao]]

\* Object.entries(counts).sort(([, a], [, b]) => b - a): a full listing
AllByCount(counts) == SortByCountDesc(ObjectEntries(counts))

\* The mutation of TopByCount that forgets the sort
FirstEntries(counts, limit) == Take(ObjectEntries(counts), limit)

\* Object.entries(counts).sort(([, a], [, b]) => b - a).slice(0, limit)
TopByCount(counts, limit) == Take(AllByCount(counts), limit)

\* Object.entries(registrationCounts).sort(by data.count, largest first)
RegistrationsByCount(registrationCounts) ==
    SortByDataCountDesc(ObjectEntries(registrationCounts))

\* The value returned by aggregateFlightData(flights).  airportCounts and
\* airportPairs are the function's local maps, kept to state the claims
\* about all destinations and all pairs; airportDailyActivity and
\* pairDailyActivity are left out.
aggregateFlightData(flights) ==
    LET acc == IF flights = <<>> THEN EmptyAccumulators
               ELSE CountFlights(EmptyAccumulators, flights)
        daily == IF flights = <<>> THEN NoDailyActivity ELSE DailySeries(flights)
    IN  [totalFlightsProcessed |-> Len(flights),
         uniqueAircraftCount |-> Cardinality(acc.uniqueIcaos),
         uniqueCallsignCount |-> Cardinality(acc.uniqueCallsigns),
         uniqueRegistrationCount |-> Cardinality(acc.uniqueRegistrations),
         topCallsigns |-> TopByCount(acc.callsignCounts, TopIdLimit),
         topIcaos |-> TopByCount(acc.icaoCounts, TopIdLimit),
         topRegistrations |->
             Take(RegistrationCountPairs(
                      RegistrationsByCount(acc.registrationCounts)),
                  TopIdLimit),
         allSortedCallsigns |-> AllByCount(acc.callsignCounts),
         allSortedIcaos |-> AllByCount(acc.icaoCounts),
         allSortedRegistrations |->
             RegistrationDetails(RegistrationsByCount(acc.registrationCounts)),
         sortedAirports |-> TopByCount(acc.airportCounts, TopListLimit),
         sortedPairs |-> TopByCount(acc.airportPairs, TopListLimit),
         landingsByDay |-> acc.landingsByDay,
         landingsByHour |-> acc.landingsByHour,
         airportLandingsByDay |-> acc.airportLandingsByDay,
         airportLandingsByHour |-> acc.airportLandingsByHour,
         pairLandingsByDay |-> acc.pairLandingsByDay,
         pairLandingsByHour |-> acc.pairLandingsByHour,
         arrivalsFrom |-> acc.arrivalsFrom,
         allAirports |-> SortedKeys(acc.airportCounts),
         allPairs |-> SortedKeys(acc.airportPairs),
         dailyLabels |-> daily.dailyLabels,
         dailyUniqueAircraftCounts |-> daily.dailyUniqueAircraftCounts,
         dailyTotalLandings |-> daily.dailyTotalLandings,
         numberOfDays |-> Len(daily.dailyLabels),
         airportCounts |-> acc.airportCounts,
         airportPairs |-> acc.airportPairs]

----------------------------------------------------------------------------
(* processData: the landing-visits version of the processing *)

\* A CSV row of the landing-visits version: time is an hour count, negative
\* when the cell is empty or not parseable by new Date()
Visits(T, I, A, C) == [time : T, icao24 : I, airportId : A, callSign : C]

\* The predicate of visits.filter: time is present and a valid date
HasValidTime(visit) == visit.time >= 0

\* Array.prototype.sort with (a, b) => new Date(a.time) - new Date(b.time):
\* a stable sort by time, earliest first
RECURSIVE InsertByTime(_, _)
InsertByTime(sorted, v) ==
    IF sorted = <<>> THEN <<v>>
    ELSE IF Head(sorted).time <= v.time
         THEN <<Head(sorted)>> \o InsertByTime(Tail(sorted), v)
         ELSE <<v>> \o sorted

RECURSIVE SortByTime(_)
SortByTime(vs) ==
    IF vs = <<>> THEN <<>>
    ELSE InsertByTime(SortByTime(SubSeq(vs, 1, Len(vs) - 1)), vs[Len(vs)])

\* The mutation of ValidVisits that forgets the sort
UnsortedValidVisits(visitRows) == SelectSeq(visitRows, HasValidTime)

\* validVisits of processData: filter, sort
ValidVisits(visitRows) == SortByTime(SelectSeq(visitRows, HasValidTime))

\* processData throws "No valid rows with parseable dates found in CSV."
ProcessDataThrows(visitRows) == ValidVisits(visitRows) = <<>>

\* The accumulators declared before the loop; minTime and maxTime start at
\* the time of the first valid visit
VisitAccumulators(validVisits) ==
    [airportCounts |-> <<>>, airportPairs |-> <<>>,
     landingsByDay |-> Zeros(DaysPerWeek), landingsByHour |-> Zeros(HoursPerDay),
     aircraftLastAirport |-> <<>>,
     airportLandingsByDay |-> <<>>, airportLandingsByHour |-> <<>>,
     pairLandingsByDay |-> <<>>, pairLandingsByHour |-> <<>>,
     uniqueIcaos |-> {}, uniqueCallsigns |-> {},
     minTime |-> validVisits[1].time, maxTime |-> validVisits[1].time]

\* The mutation of IsCounted that also asks for a callsign
IsCountedWithCallSign(visit) ==
    visit.icao24 # "" /\ visit.airportId # "" /\ visit.callSign # ""

\* The negation of: if (!icao24 || !airportId) return;
IsCounted(visit) == visit.icao24 # "" /\ visit.airportId # ""

\* if (aircraftLastAirport[icao24]) { if (lastAirport !== airportId) ... }:
\* the landing ends a leg from another airport
EndsLeg(aircraftLastAirport, icao24, airportId) ==
    /\ GetOr(aircraftLastAirport, icao24, "") # ""
    /\ Get(aircraftLastAirport, icao24) # airportId

\* The body of validVisits.forEach(visit => ...)
CountVisit(acc, visit) ==
    IF ~IsCounted(visit) THEN acc
    ELSE LET dayOfWeek == getDay(visit.time)
             hourOfDay == getHours(visit.time)
             airportId == visit.airportId
             endsLeg == EndsLeg(acc.aircraftLastAirport, visit.icao24, airportId)
             pair == PairKey(GetOr(acc.aircraftLastAirport, visit.icao24, ""),
                             airportId)
         IN  [minTime |-> IF visit.time < acc.minTime THEN visit.time
                          ELSE acc.minTime,
              maxTime |-> IF visit.time > acc.maxTime THEN visit.time
                          ELSE acc.maxTime,
              uniqueIcaos |-> acc.uniqueIcaos \cup {visit.icao24},
              uniqueCallsigns |->
                  IF visit.callSign = "" THEN acc.uniqueCallsigns
                  ELSE acc.uniqueCallsigns \cup {trim(visit.callSign)},
              airportCounts |-> CountUp(acc.airportCounts, airportId),
              landingsByDay |-> Increment(acc.landingsByDay, dayOfWeek),
              landingsByHour |-> Increment(acc.landingsByHour, hourOfDay),
              airportLandingsByDay |->
                  IncrementIn(acc.airportLandingsByDay, airportId,
                              DaysPerWeek, dayOfWeek),
              airportLandingsByHour |->
                  IncrementIn(acc.airportLandingsByHour, airportId,
                              HoursPerDay, hourOfDay),
              airportPairs |->
                  IF endsLeg THEN CountUp(acc.airportPairs, pair)
                  ELSE acc.airportPairs,
              pairLandingsByDay |->
                  IF endsLeg
                  THEN IncrementIn(acc.pairLandingsByDay, pair, DaysPerWeek, dayOfWeek)
                  ELSE acc.pairLandingsByDay,
              pairLandingsByHour |->
                  IF endsLeg
                  THEN IncrementIn(acc.pairLandingsByHour, pair, HoursPerDay, hourOfDay)
                  ELSE acc.pairLandingsByHour,
              aircraftLastAirport |->
                  Put(acc.aircraftLastAirport, visit.icao24, airportId)]

\* validVisits.forEach over the list, from the accumulators acc
RECURSIVE CountVisits(_, _)
CountVisits(acc, validVisits) ==
    IF validVisits = <<>> THEN acc
    ELSE CountVisits(CountVisit(acc, Head(validVisits)), Tail(validVisits))

\* The value returned by processData(visits), defined when some row has a
\* valid time; airportPairs is the function's local map, kept to state the
\* claims about all pairs
processData(visitRows) ==
    LET validVisits == ValidVisits(visitRows)
        acc == CountVisits(VisitAccumulators(validVisits), validVisits)
    IN  [earliestTime |-> acc.minTime,
         latestTime |-> acc.maxTime,
         totalLandings |-> Len(validVisits),
         uniqueAircraftCount |-> Cardinality(acc.uniqueIcaos),
         uniqueCallsignCount |-> Cardinality(acc.uniqueCallsigns),
         sortedAirports |-> TopByCount(acc.airportCounts, TopListLimit),
         sortedPairs |-> TopByCount(acc.airportPairs, TopListLimit),
         landingsByDay |-> acc.landingsByDay,
         landingsByHour |-> acc.landingsByHour,
         airportLandingsByDay |-> acc.airportLandingsByDay,
         airportLandingsByHour |-> acc.airportLandingsByHour,
         pairLandingsByDay |-> acc.pairLandingsByDay,
         pairLandingsByHour |-> acc.pairLandingsByHour,
         allAirports |-> SortedKeys(acc.airportCounts),
         allPairs |-> SortedKeys(acc.airportPairs),
         airportPairs |-> acc.airportPairs]

----------------------------------------------------------------------------
(* The App component: memoised values *)

NoFilterAirport == "all"

NoFilterPair == "none"

\* The date filter shared by filteredFlights and dateFilteredFlights
InDateRange(flight, range) ==
    /\ flight.landing_time >= StartOfLocalDay(range[1])
    /\ flight.landing_time <= EndOfLocalDay(range[2])

DateFiltered(flights, range) ==
    IF range = <<>> THEN flights
    ELSE SelectSeq(flights, LAMBDA f : InDateRange(f, range))

\* The mutation of AirportFiltered that compares the origin
OriginFiltered(flights, airport) ==
    IF airport = NoFilterAirport THEN flights
    ELSE SelectSeq(flights, LAMBDA f : f.origin = airport)

AirportFiltered(flights, airport) ==
    IF airport = NoFilterAirport THEN flights
    ELSE SelectSeq(flights, LAMBDA f : f.destination = airport)

PairFiltered(flights, pair) ==
    IF pair = NoFilterPair THEN flights
    ELSE SelectSeq(flights, LAMBDA f : /\ f.origin # ""
                                       /\ f.destination # ""
                                       /\ PairKey(f.origin, f.destination) = pair)

\* initialData?.rawFlights, [] when there is none
RawFlights == IF initialData = <<>> THEN <<>> ELSE initialData[1].rawFlights

\* useMemo filteredFlights
FilteredFlightsMemo ==
    PairFiltered(AirportFiltered(DateFiltered(RawFlights, dateRange),
                                 selectedAirport),
                 selectedPair)

\* useMemo dateFilteredFlights
DateFilteredFlightsMemo == DateFiltered(RawFlights, dateRange)

\* useMemo topChartsData
TopChartsData == aggregateFlightData(DateFilteredFlightsMemo)

----------------------------------------------------------------------------
(* The App component: state and handlers *)

TypeOK ==
    /\ selected \in 0..Len(files)
    /\ pending \subseteq 1..selected
    /\ loading \in BOOLEAN
    /\ dirty \in BOOLEAN
    /\ Len(initialData) \in {0, 1}
    /\ Len(dateRange) \in {0, 2}
    /\ Len(visitsApp.data) \in {0, 1}

\* The landing-visits version before a file is selected
NoVisitsApp == [data |-> <<>>, loading |-> FALSE, error |-> ""]

\* No file for the landing-visits version
NoVisitsFile == [rows |-> <<>>, header |-> FALSE, readable |-> FALSE]

\* useState(...) of both versions and the memoised values of the first render
AppInit ==
    /\ visitsApp = NoVisitsApp
    /\ selected = 0
    /\ pending = {}
    /\ loading = FALSE
    /\ error = ""
    /\ initialData = <<>>
    /\ dateRange = <<>>
    /\ selectedAirport = NoFilterAirport
    /\ selectedPair = NoFilterPair
    /\ dirty = FALSE
    /\ filteredFlights = <<>>
    /\ displayedData = aggregateFlightData(<<>>)
    /\ airportInputValue = ""
    /\ pairInputValue = ""
    /\ airportInputTimer = <<>>
    /\ pairInputTimer = <<>>
    /\ typedSince = {}
    /\ showDetailedStats = FALSE
    /\ callsignPage = 1
    /\ registrationPage = 1

\* The state of the component after its first render, with the files to be
\* uploaded and the time zone drawn from inputs, a set of <<files, tz>>
InitWith(inputs) ==
    /\ \E input \in inputs : files = input[1] /\ tz = input[2]
    /\ visits = NoVisitsFile
    /\ AppInit

\* handleFileUpload up to the return of Papa.parse, for the next file the
\* user selects; the file input is never disabled
HandleFileUpload ==
    /\ ~dirty
    /\ selected < Len(files)
    /\ selected' = selected + 1
    /\ pending' = pending \cup {selected + 1}
    /\ loading' = TRUE
    /\ error' = ""
    /\ initialData' = <<>>
    /\ selectedAirport' = NoFilterAirport
    /\ selectedPair' = NoFilterPair
    /\ airportInputValue' = ""
    /\ pairInputValue' = ""
    /\ typedSince' = {}
    /\ dateRange' = <<>>
    /\ showDetailedStats' = FALSE
    /\ callsignPage' = 1
    /\ registrationPage' = 1
    /\ dirty' = TRUE
    /\ UNCHANGED <<inputVars, filteredFlights, displayedData, visitsApp, timerVars>>

\* The mutation of ProcessingError that forgets the check of the columns
ProcessingErrorWithoutColumns(file) ==
    IF file.rows = <<>> THEN "CSV file is empty or invalid."
    ELSE IF ProcessInitialDataThrows(file.rows)
    THEN "No valid rows with parseable landing_times found in CSV."
    ELSE ""

\* The message of the Error thrown in the try block of the complete
\* callback, "" when none is thrown.  The message about the columns goes on
\* with the names of the columns found.
ProcessingError(file) ==
    IF file.rows = <<>> THEN "CSV file is empty or invalid."
    ELSE IF ~file.header
    THEN "CSV must include columns: takeoff_time, landing_time, icao, origin, destination."
    ELSE IF ProcessInitialDataThrows(file.rows)
    THEN "No valid rows with parseable landing_times found in CSV."
    ELSE ""

\* The complete callback of Papa.parse for a file whose parse is outstanding
ParseComplete ==
    /\ ~dirty
    /\ \E i \in pending :
          /\ files[i].readable
          /\ pending' = pending \ {i}
          /\ IF ProcessingError(files[i]) # ""
             THEN /\ error' = "Failed to process data: " \o ProcessingError(files[i])
                  /\ initialData' = <<>>
                  /\ UNCHANGED dateRange
             ELSE LET processed == processInitialData(files[i].rows)
                  IN  /\ initialData' = <<processed>>
                      /\ dateRange' = <<getCalendarDate(processed.earliestTime),
                                        getCalendarDate(processed.latestTime)>>
                      /\ UNCHANGED error
    /\ loading' = FALSE
    /\ dirty' = TRUE
    /\ UNCHANGED <<inputVars, statsVars,
                   selected, selectedAirport, selectedPair,
                   filteredFlights, displayedData, visitsApp, textVars, timerVars,
                   typedSince>>

\* The error callback of Papa.parse for a file that cannot be read
ParseError ==
    /\ ~dirty
    /\ \E i \in pending :
          /\ ~files[i].readable
          /\ pending' = pending \ {i}
    /\ error' = "Failed to parse CSV: file could not be read"
    /\ loading' = FALSE
    /\ initialData' = <<>>
    /\ dirty' = TRUE
    /\ UNCHANGED <<inputVars, statsVars,
                   selected, dateRange, selectedAirport, selectedPair,
                   filteredFlights, displayedData, visitsApp, textVars, timerVars,
                   typedSince>>

\* The mutation of Render that keeps a stale selection
RenderKeepingSelection ==
    /\ dirty
    /\ filteredFlights' = FilteredFlightsMemo
    /\ displayedData' = aggregateFlightData(FilteredFlightsMemo)
    /\ dirty' = FALSE
    /\ UNCHANGED <<inputVars, statsVars,
                   selected, pending, loading, error, initialData,
                   dateRange, selectedAirport, selectedPair, visitsApp,
                   textVars, timerVars, typedSince>>

\* A render of App: filteredFlights and displayedData are recomputed, and a
\* selection that no longer occurs in the aggregate is reset, which asks
\* for another render
Render ==
    /\ dirty
    /\ LET flights == FilteredFlightsMemo
           aggData == aggregateFlightData(flights)
           staleAirport == /\ selectedAirport # NoFilterAirport
                           /\ selectedAirport \notin aggData.allAirports
           stalePair == /\ selectedPair # NoFilterPair
                        /\ selectedPair \notin aggData.allPairs
       IN  /\ filteredFlights' = flights
           /\ displayedData' = aggData
           /\ selectedAirport' = IF staleAirport THEN NoFilterAirport
                                 ELSE selectedAirport
           /\ selectedPair' = IF stalePair THEN NoFilterPair ELSE selectedPair
           /\ airportInputValue' = IF staleAirport THEN "" ELSE airportInputValue
           /\ pairInputValue' = IF stalePair THEN "" ELSE pairInputValue
           /\ typedSince' = typedSince \ ((IF staleAirport THEN {"airport"} ELSE {})
                                            \cup (IF stalePair THEN {"pair"} ELSE {}))
           /\ dirty' = (staleAirport \/ stalePair)
    /\ UNCHANGED <<inputVars, statsVars,
                   selected, pending, loading, error, initialData,
                   dateRange, visitsApp, timerVars>>

\* The calendar days the DateRangePicker offers: minValue to maxValue
PickableDays ==
    IF initialData = <<>> THEN {}
    ELSE getCalendarDate(initialData[1].earliestTime)
             .. getCalendarDate(initialData[1].latestTime)

\* onChange={setDateRange} of the DateRangePicker
ChangeDateRange ==
    /\ ~dirty
    /\ ~loading
    /\ \E start \in PickableDays, end \in PickableDays :
          /\ start <= end
          /\ dateRange' = <<start, end>>
    /\ dirty' = TRUE
    /\ UNCHANGED <<inputVars, statsVars,
                   selected, pending, loading, error, initialData,
                   selectedAirport, selectedPair, filteredFlights, displayedData,
                   visitsApp, textVars, timerVars,
                   typedSince>>

\* onPress={() => setDateRange(null)} of the Clear Range button
ClearDateRange ==
    /\ ~dirty
    /\ ~loading
    /\ initialData # <<>>
    /\ dateRange # <<>>
    /\ dateRange' = <<>>
    /\ dirty' = TRUE
    /\ UNCHANGED <<inputVars, statsVars,
                   selected, pending, loading, error, initialData,
                   selectedAirport, selectedPair, filteredFlights, displayedData,
                   visitsApp, textVars, timerVars,
                   typedSince>>

\* What a handler leaves alone when it sets the two selections
SelectionFrame ==
    UNCHANGED <<inputVars, statsVars,
                selected, pending, loading, error, initialData,
                dateRange, filteredFlights, displayedData, visitsApp, timerVars>>

\* option.toLowerCase().includes(text.toLowerCase()) on the strings of the
\* model: the options "A", "B", "A-B", "B-A" and the texts that the handlers
\* set or the user types
IncludesTable ==
    {<<"A", "a">>, <<"B", "b">>,
     <<"A-B", "A">>, <<"A-B", "B">>, <<"A-B", "a">>, <<"A-B", "b">>,
     <<"B-A", "A">>, <<"B-A", "B">>, <<"B-A", "a">>, <<"B-A", "b">>}

MatchesText(option, text) ==
    text = "" \/ option = text \/ <<option, text>> \in IncludesTable

\* useMemo airportOptions: the ids of the items of the destination combo box
AirportOptions ==
    {NoFilterAirport}
        \cup {airport \in TopChartsData.allAirports :
                 MatchesText(airport, airportInputValue)}

\* useMemo pairOptions: the ids of the items of the pair combo box
PairOptions ==
    {NoFilterPair}
        \cup {pair \in TopChartsData.allPairs : MatchesText(pair, pairInputValue)}

\* displayedData?.allAirports.find(a => a === key) || '', and the same for
\* allPairs
SelectedText(key, all) == IF key \in all THEN key ELSE ""

\* The mutation of HandleAirportSelectionChange that leaves the pair selected
HandleAirportSelectionKeepingPair ==
    /\ ~dirty
    /\ ~loading
    /\ initialData # <<>>
    /\ \E key \in AirportOptions :
          /\ selectedAirport' = key
          /\ airportInputValue' =
                 IF key = NoFilterAirport THEN ""
                 ELSE SelectedText(key, displayedData.allAirports)
    /\ UNCHANGED <<selectedPair, pairInputValue>>
    /\ typedSince' = {}
    /\ dirty' = TRUE
    /\ UNCHANGED <<inputVars, statsVars,
                   selected, pending, loading, error, initialData,
                   dateRange, filteredFlights, displayedData, visitsApp, timerVars>>

\* handleAirportSelectionChange(key): key is "all" (with the same outcome as
\* null) or another of the airport options
HandleAirportSelectionChange ==
    /\ ~dirty
    /\ ~loading
    /\ initialData # <<>>
    /\ \E key \in AirportOptions :
          /\ selectedAirport' = key
          /\ airportInputValue' =
                 IF key = NoFilterAirport THEN ""
                 ELSE SelectedText(key, displayedData.allAirports)
    /\ selectedPair' = NoFilterPair
    /\ pairInputValue' = ""
    /\ typedSince' = {}
    /\ dirty' = TRUE
    /\ SelectionFrame

\* handlePairSelectionChange(key): key is "none" (with the same outcome as
\* null) or another of the pair options
HandlePairSelectionChange ==
    /\ ~dirty
    /\ ~loading
    /\ initialData # <<>>
    /\ \E key \in PairOptions :
          /\ selectedPair' = key
          /\ pairInputValue' =
                 IF key = NoFilterPair THEN ""
                 ELSE SelectedText(key, displayedData.allPairs)
    /\ selectedAirport' = NoFilterAirport
    /\ airportInputValue' = ""
    /\ typedSince' = {}
    /\ dirty' = TRUE
    /\ SelectionFrame

\* The charts and the map are rendered when the displayed aggregate counts
\* some flight
ChartsShown == initialData # <<>> /\ displayedData.totalFlightsProcessed > 0

\* The labels of a bar chart: the keys of a top list
BarLabels(sorted) == {sorted[i][1] : i \in 1..Len(sorted)}

\* The airports of the map: origins and destinations of the flights shown
MapAirports ==
    ({filteredFlights[i].destination : i \in 1..Len(filteredFlights)}
        \cup {filteredFlights[i].origin : i \in 1..Len(filteredFlights)})
    \ {""}

\* handleAirportClick(airportId): a click on a bar of "Top 20 Destinations"
HandleAirportClick ==
    /\ ~dirty
    /\ ChartsShown
    /\ \E airportId \in BarLabels(TopChartsData.sortedAirports) :
          IF airportId \in TopChartsData.allAirports
          THEN /\ selectedAirport' = airportId
               /\ selectedPair' = NoFilterPair
               /\ airportInputValue' = airportId
               /\ pairInputValue' = ""
               /\ typedSince' = {}
          ELSE UNCHANGED <<selectedAirport, selectedPair, textVars, typedSince>>
    /\ dirty' = TRUE
    /\ SelectionFrame

\* handlePairClick(pairId): a click on a bar of "Top 20 Legs"
HandlePairClick ==
    /\ ~dirty
    /\ ChartsShown
    /\ \E pairId \in BarLabels(TopChartsData.sortedPairs) :
          IF pairId \in TopChartsData.allPairs
          THEN /\ selectedPair' = pairId
               /\ selectedAirport' = NoFilterAirport
               /\ pairInputValue' = pairId
               /\ airportInputValue' = ""
               /\ typedSince' = {}
          ELSE UNCHANGED <<selectedAirport, selectedPair, textVars, typedSince>>
    /\ dirty' = TRUE
    /\ SelectionFrame

\* handleMapAirportClick(airportCode): a click on an airport marker of the map
HandleMapAirportClick ==
    /\ ~dirty
    /\ ChartsShown
    /\ \E airportCode \in MapAirports :
          IF airportCode \in TopChartsData.allAirports
          THEN /\ selectedAirport' = airportCode
               /\ selectedPair' = NoFilterPair
               /\ airportInputValue' = airportCode
               /\ pairInputValue' = ""
               /\ typedSince' = {}
          ELSE UNCHANGED <<selectedAirport, selectedPair, textVars, typedSince>>
    /\ dirty' = TRUE
    /\ SelectionFrame

\* handleMapBackgroundClick(): a click on the map outside every marker
HandleMapBackgroundClick ==
    /\ ~dirty
    /\ ChartsShown
    /\ selectedAirport' = NoFilterAirport
    /\ selectedPair' = NoFilterPair
    /\ airportInputValue' = ""
    /\ pairInputValue' = ""
    /\ typedSince' = {}
    /\ dirty' = TRUE
    /\ SelectionFrame

\* The texts the user types into a combo box: a text that some option
\* includes and a text that no option includes
TypedTexts == {"b", "x"}

\* handleAirportInputChange(value): the user edits the text of the
\* destination combo box; a scheduled update is replaced by the new one
HandleAirportInputChange ==
    /\ ~dirty
    /\ ~loading
    /\ initialData # <<>>
    /\ \E value \in TypedTexts : airportInputTimer' = <<value>>
    /\ typedSince' = typedSince \cup {"airport"}
    /\ UNCHANGED <<inputVars, statsVars,
                   selected, pending, loading, error, initialData,
                   dateRange, selectedAirport, selectedPair, dirty,
                   filteredFlights, displayedData, visitsApp, textVars,
                   pairInputTimer>>

\* handlePairInputChange(value): the same for the pair combo box
HandlePairInputChange ==
    /\ ~dirty
    /\ ~loading
    /\ initialData # <<>>
    /\ \E value \in TypedTexts : pairInputTimer' = <<value>>
    /\ typedSince' = typedSince \cup {"pair"}
    /\ UNCHANGED <<inputVars, statsVars,
                   selected, pending, loading, error, initialData,
                   dateRange, selectedAirport, selectedPair, dirty,
                   filteredFlights, displayedData, visitsApp, textVars,
                   airportInputTimer>>

\* The callback of setTimeout in handleAirportInputChange, 50 ms after the
\* user typed: no handler cancels it
AirportInputTimeout ==
    /\ ~dirty
    /\ airportInputTimer # <<>>
    /\ airportInputValue' = airportInputTimer[1]
    /\ airportInputTimer' = <<>>
    /\ dirty' = TRUE
    /\ UNCHANGED <<inputVars, statsVars,
                   selected, pending, loading, error, initialData,
                   dateRange, selectedAirport, selectedPair, filteredFlights,
                   displayedData, visitsApp, pairInputValue, pairInputTimer,
                   typedSince>>

\* The callback of setTimeout in handlePairInputChange
PairInputTimeout ==
    /\ ~dirty
    /\ pairInputTimer # <<>>
    /\ pairInputValue' = pairInputTimer[1]
    /\ pairInputTimer' = <<>>
    /\ dirty' = TRUE
    /\ UNCHANGED <<inputVars, statsVars,
                   selected, pending, loading, error, initialData,
                   dateRange, selectedAirport, selectedPair, filteredFlights,
                   displayedData, visitsApp, airportInputValue,
                   airportInputTimer, typedSince>>

\* const itemsPerPage = 25
ItemsPerPage == 25

\* Math.ceil(length / itemsPerPage)
TotalPages(length) == (length + ItemsPerPage - 1) \div ItemsPerPage

CallsignTotalPages == TotalPages(Len(displayedData.allSortedCallsigns))

RegistrationTotalPages == TotalPages(Len(displayedData.allSortedRegistrations))

\* list.slice((page - 1) * itemsPerPage, (page - 1) * itemsPerPage + itemsPerPage)
Paginated(list, page) ==
    SubSeq(list, (page - 1) * ItemsPerPage + 1, Min(page * ItemsPerPage, Len(list)))

\* hasTopStats: the Show Details / Hide Details button is rendered
HasTopStats ==
    Len(displayedData.topCallsigns) > 0 \/ Len(displayedData.topRegistrations) > 0

\* SummaryStatistics is mounted and shows the aggregate of the last render
StatsShown == ~dirty /\ initialData # <<>>

\* What the handlers of SummaryStatistics leave alone: the state of App
StatsFrame ==
    UNCHANGED <<inputVars, selected, pending, loading, error, initialData,
                dateRange, selectedAirport, selectedPair, dirty,
                filteredFlights, displayedData, visitsApp, textVars, timerVars,
                typedSince>>

\* toggleDetailedStats: the Show Details / Hide Details button
ToggleDetailedStats ==
    /\ StatsShown
    /\ HasTopStats
    /\ showDetailedStats' = ~showDetailedStats
    /\ callsignPage' = 1
    /\ registrationPage' = 1
    /\ StatsFrame

\* Previous of the callsign table: setCallsignPage(prev => Math.max(prev - 1, 1))
CallsignPrevious ==
    /\ StatsShown
    /\ showDetailedStats
    /\ CallsignTotalPages > 1
    /\ callsignPage # 1
    /\ callsignPage' = Max(callsignPage - 1, 1)
    /\ UNCHANGED <<showDetailedStats, registrationPage>>
    /\ StatsFrame

\* Next of the callsign table:
\* setCallsignPage(prev => Math.min(prev + 1, callsignTotalPages))
CallsignNext ==
    /\ StatsShown
    /\ showDetailedStats
    /\ CallsignTotalPages > 1
    /\ callsignPage # CallsignTotalPages
    /\ callsignPage' = Min(callsignPage + 1, CallsignTotalPages)
    /\ UNCHANGED <<showDetailedStats, registrationPage>>
    /\ StatsFrame

\* Previous of the registration table
RegistrationPrevious ==
    /\ StatsShown
    /\ showDetailedStats
    /\ RegistrationTotalPages > 1
    /\ registrationPage # 1
    /\ registrationPage' = Max(registrationPage - 1, 1)
    /\ UNCHANGED <<showDetailedStats, callsignPage>>
    /\ StatsFrame

\* Next of the registration table
RegistrationNext ==
    /\ StatsShown
    /\ showDetailedStats
    /\ RegistrationTotalPages > 1
    /\ registrationPage # RegistrationTotalPages
    /\ registrationPage' = Min(registrationPage + 1, RegistrationTotalPages)
    /\ UNCHANGED <<showDetailedStats, callsignPage>>
    /\ StatsFrame

\* Landing-visits version: handleFileUpload up to the return of Papa.parse,
\* for the one file of the model
VisitsUpload ==
    /\ visitsApp = NoVisitsApp
    /\ visitsApp' = [data |-> <<>>, loading |-> TRUE, error |-> ""]
    /\ UNCHANGED <<inputVars, statsVars,
                   selected, pending, loading, error, initialData,
                   dateRange, selectedAirport, selectedPair, dirty,
                   filteredFlights, displayedData, textVars, timerVars,
                   typedSince>>

\* Landing-visits version: the message of the Error thrown in the try block
\* of the complete callback, "" when none is thrown
VisitsProcessingError(file) ==
    IF file.rows = <<>> THEN "CSV file is empty or invalid."
    ELSE IF ~file.header THEN "CSV must include columns: time, icao24, airportId."
    ELSE IF ProcessDataThrows(file.rows)
    THEN "No valid rows with parseable dates found in CSV."
    ELSE IF processData(file.rows).allAirports = {}
    THEN "Could not process data. Check CSV content and format, especially dates."
    ELSE ""

\* Landing-visits version: the complete callback of Papa.parse
VisitsComplete ==
    /\ visitsApp.loading
    /\ visits.readable
    /\ visitsApp' =
          IF VisitsProcessingError(visits) # ""
          THEN [visitsApp EXCEPT
                  !.error = "Failed to process data: " \o VisitsProcessingError(visits),
                  !.loading = FALSE]
          ELSE [visitsApp EXCEPT !.data = <<processData(visits.rows)>>,
                                 !.loading = FALSE]
    /\ UNCHANGED <<inputVars, statsVars,
                   selected, pending, loading, error, initialData,
                   dateRange, selectedAirport, selectedPair, dirty,
                   filteredFlights, displayedData, textVars, timerVars,
                   typedSince>>

\* Landing-visits version: the error callback of Papa.parse
VisitsParseError ==
    /\ visitsApp.loading
    /\ ~visits.readable
    /\ visitsApp' = [visitsApp EXCEPT
                       !.error = "Failed to parse CSV: file could not be read",
                       !.loading = FALSE]
    /\ UNCHANGED <<inputVars, statsVars,
                   selected, pending, loading, error, initialData,
                   dateRange, selectedAirport, selectedPair, dirty,
                   filteredFlights, displayedData, textVars, timerVars,
                   typedSince>>

\* The landing-visits version
NextVisits == VisitsUpload \/ VisitsComplete \/ VisitsParseError

\* The user uploads files and nothing else
NextUpload == HandleFileUpload \/ ParseComplete \/ ParseError \/ Render

Next ==
    \/ HandleFileUpload
    \/ ParseComplete
    \/ ParseError
    \/ Render
    \/ ChangeDateRange
    \/ ClearDateRange
    \/ HandleAirportSelectionChange
    \/ HandlePairSelectionChange
    \/ HandleAirportClick
    \/ HandlePairClick
    \/ HandleMapAirportClick
    \/ HandleMapBackgroundClick

\* The user also types into the combo boxes; the files are parsed
NextInput ==
    \/ HandleFileUpload
    \/ ParseComplete
    \/ Render
    \/ ChangeDateRange
    \/ ClearDateRange
    \/ HandleAirportSelectionChange
    \/ HandlePairSelectionChange
    \/ HandleAirportClick
    \/ HandlePairClick
    \/ HandleMapAirportClick
    \/ HandleMapBackgroundClick
    \/ HandleAirportInputChange
    \/ HandlePairInputChange
    \/ AirportInputTimeout
    \/ PairInputTimeout

\* A file is uploaded, a destination is selected and the pages of the
\* detailed tables are turned
NextStats ==
    \/ HandleFileUpload
    \/ ParseComplete
    \/ Render
    \/ HandleAirportSelectionChange
    \/ ToggleDetailedStats
    \/ CallsignPrevious
    \/ CallsignNext
    \/ RegistrationPrevious
    \/ RegistrationNext

----------------------------------------------------------------------------
(* Inputs *)

\* The local time zones of the model
TimeZones == {-5, 9}

\* Landing times: 23:00 of day 1, 01:00 of day 3, 13:00 of day 4 (UTC)
LateDay1 == 1 * HoursPerDay + 23

EarlyDay3 == 3 * HoursPerDay + 1

NoonDay4 == 4 * HoursPerDay + 13

\* Files of the specification with filter changes
FilterRows ==
    SeqsUpTo(Flights({LateDay1, NoonDay4}, {"ab"}, {"A", "B"}, {"", "A", "B"},
                     {""}, {""}),
             MaxFilterRows)

\* Files that vary the route: both directions of a pair, a second origin,
\* flights that return to their origin, empty origins and destinations
RouteRows ==
    SeqsUpTo(Flights({LateDay1}, {"ab"}, {"A", "B"}, {"A", "B"}, {""}, {""})
             \cup Flights({LateDay1}, {"ab"}, {"C"}, {"B"}, {""}, {""})
             \cup Flights({LateDay1}, {"ab"}, {""}, {"A"}, {""}, {""})
             \cup Flights({LateDay1}, {"ab"}, {"A"}, {""}, {""}, {""}),
             MaxRows)

\* Files that vary the landing time and the destination
HistRows ==
    SeqsUpTo(Flights({LateDay1, EarlyDay3, NoonDay4}, {"ab"}, {"A"},
                     {"A", "B"}, {""}, {""})
             \cup Flights({LateDay1}, {"ab"}, {"A"}, {""}, {""}, {""}),
             MaxRows)

\* Files that vary the day and the aircraft, with a row without destination
DailyRows ==
    SeqsUpTo(Flights({LateDay1, EarlyDay3}, {"", "ab", "AB"}, {"B"}, {"A"},
                     {""}, {""})
             \cup Flights({EarlyDay3}, {"ab"}, {"B"}, {""}, {""}, {""}),
             MaxRows)

\* Files that vary aircraft identifier, callsign and registration: upper and
\* lower case, surrounding blanks, blank and empty cells, identifiers that
\* are array indices, one registration on several aircraft; and a row
\* without destination
IdRows ==
    SeqsUpTo(Flights({LateDay1}, {"ab", "7"}, {"B"}, {"A"}, {"X1"}, {"N1"})
             \cup Flights({LateDay1}, {"AB"}, {"B"}, {"A"}, {" X1"}, {" N1"})
             \cup Flights({LateDay1}, {""}, {"B"}, {"A"}, {" "}, {""})
             \cup Flights({LateDay1}, {"40"}, {"B"}, {"A"}, {""}, {"N1"})
             \cup Flights({LateDay1}, {"Cd"}, {"B"}, {""}, {"X1 "}, {"N1"}),
             MaxRows)

\* Airport codes of the rosters
RosterCodes ==
    <<"K01", "K02", "K03", "K04", "K05", "K06", "K07", "K08", "K09", "K10",
      "K11", "K12", "K13", "K14", "K15", "K16", "K17", "K18", "K19", "K20",
      "K21", "K22", "K23", "K24", "K25", "K26", "K27", "K28">>

\* The i-th flight of a roster: its own destination, aircraft, callsign and
\* registration, and the next code as origin
RosterFlight(i) ==
    [landing_time |-> LateDay1,
     icao |-> "ac" \o RosterCodes[i],
     origin |-> RosterCodes[i + 1],
     destination |-> RosterCodes[i],
     callsign |-> "CS" \o RosterCodes[i],
     registration |-> "N" \o RosterCodes[i]]

Roster(k) == [i \in 1..k |-> RosterFlight(i)]

\* The roster sizes: none, as many as a top list holds and one more, for the
\* lists of five and of twenty, and the largest
RosterSizes == {0, TopIdLimit, TopIdLimit + 1, TopListLimit, MaxRoster}

\* Flights repeated before or after a roster, to raise single counts
ExtraFlights ==
    {RosterFlight(i) : i \in {1, TopIdLimit + 1, TopListLimit, TopListLimit + 1}}

\* Files with more airports, pairs and aircraft than the top lists hold
RosterRows ==
    {Roster(k) \o extra : k \in RosterSizes,
                          extra \in SeqsUpTo(ExtraFlights, MaxExtra)}
    \cup {extra \o Roster(k) : k \in RosterSizes,
                               extra \in SeqsUpTo(ExtraFlights, MaxExtra)}

\* Files with rows whose landing_time is empty or not parseable, in any
\* position; some have no other row
SkipRows ==
    SeqsUpTo(Flights({-1, LateDay1, EarlyDay3}, {"ab"}, {"B"}, {"A"}, {""}, {""}),
             MaxRows)

\* What Papa.parse makes of a well-formed file with the rows given
CsvFile(rows) == [rows |-> rows, header |-> TRUE, readable |-> TRUE]

\* A file without data rows, one whose header lacks a required column and
\* one that Papa.parse cannot read
BrokenFiles ==
    {CsvFile(<<>>),
     [rows |-> <<RosterFlight(1)>>, header |-> FALSE, readable |-> TRUE],
     [rows |-> <<>>, header |-> FALSE, readable |-> FALSE]}

\* The user selects one file: one of the row lists given, in one of the
\* time zones given
SingleUploads(rowLists, zones) ==
    {<<<<CsvFile(rows)>>, zone>> : rows \in rowLists, zone \in zones}

\* The landing time decides the histogram buckets through the local time
\* zone: the files that vary it are taken in every time zone of the model
UploadInputs ==
    SingleUploads(HistRows, TimeZones)
        \cup SingleUploads(RouteRows \cup DailyRows \cup IdRows \cup RosterRows
                               \cup SkipRows, {-5})
        \cup {<<<<file>>, -5>> : file \in BrokenFiles}

Init ==
    InitWith(SingleUploads(FilterRows, TimeZones)
                 \cup {<<<<file>>, 9>> : file \in BrokenFiles})

Spec == Init /\ [][Next]_vars

InitUpload == InitWith(UploadInputs)

\* A file is uploaded and rendered; no filter is changed
SpecUpload == InitUpload /\ [][NextUpload]_vars

\* The files of the specification with several uploads: two good files with
\* different flights, a file of unparseable landing times and the broken files
RaceFiles ==
    {CsvFile(<<RosterFlight(1)>>),
     CsvFile(<<RosterFlight(2), RosterFlight(3)>>),
     CsvFile(<<[RosterFlight(1) EXCEPT !.landing_time = -1]>>)}
        \cup BrokenFiles

InitRace == InitWith(SeqsUpTo(RaceFiles, MaxFiles) \X {-5})

\* Files are selected one after another, also while earlier ones are parsed
SpecRace == InitRace /\ [][NextUpload]_vars

\* The files of the specification with typing: flights in both directions
\* of a pair, and then one of them alone
InputFiles ==
    <<CsvFile(<<[landing_time |-> LateDay1, icao |-> "ab", origin |-> "A",
                destination |-> "B", callsign |-> "", registration |-> ""],
               [landing_time |-> LateDay1, icao |-> "ab", origin |-> "B",
                destination |-> "A", callsign |-> "", registration |-> ""]>>),
     CsvFile(<<[landing_time |-> LateDay1, icao |-> "ab", origin |-> "B",
                destination |-> "A", callsign |-> "", registration |-> ""]>>)>>

InitInput == InitWith({<<InputFiles, 9>>})

\* Files are uploaded, filters are changed and the user types into the
\* combo boxes
SpecInput == InitInput /\ [][NextInput]_vars

\* The files of the specification with the detailed tables: a roster that
\* fills one page of each table, and one with a row more
PagedFiles == {CsvFile(Roster(k)) : k \in {ItemsPerPage, ItemsPerPage + 1}}

InitStats == InitWith({<<<<file>>, -5>> : file \in PagedFiles})

\* SummaryStatistics under App
SpecStats == InitStats /\ [][NextStats]_vars

\* Landing visits: one aircraft at two airports at three times, a second
\* aircraft with a callsign, a row without a parseable time, a latest row
\* without aircraft and an earliest row without airport
VisitCatalogue ==
    Visits({LateDay1, EarlyDay3, NoonDay4}, {"x"}, {"A", "B"}, {""})
        \cup Visits({EarlyDay3}, {"y"}, {"B"}, {"X1"})
        \cup Visits({-1}, {"x"}, {"A"}, {""})
        \cup Visits({NoonDay4}, {""}, {"A"}, {"X1"})
        \cup Visits({LateDay1}, {"x"}, {""}, {""})

\* The files of the landing-visits version
VisitFiles ==
    {CsvFile(rows) : rows \in SeqsUpTo(VisitCatalogue, MaxVisits)}
        \cup {[rows |-> <<v>>, header |-> FALSE, readable |-> TRUE] :
                 v \in Visits({LateDay1}, {"x"}, {"A"}, {""})}
        \cup {NoVisitsFile}

InitVisits ==
    /\ visits \in VisitFiles
    /\ files = <<>>
    /\ tz = -5
    /\ AppInit

\* The landing-visits version of the client: one file is uploaded
SpecVisits == InitVisits /\ [][NextVisits]_vars

----------------------------------------------------------------------------
(* Vocabulary of the claims: the flight list handed to aggregateFlightData *)
(* by the last render and the aggregate it returned                        *)

\* A render has shown an uploaded file and nothing changed since
Settled == ~dirty /\ initialData # <<>>

FlightIndexes == 1..Len(filteredFlights)

\* The number of flights of the list that satisfy P
NumberOfFlights(P(_)) ==
    Cardinality({i \in FlightIndexes : P(filteredFlights[i])})

HasDestination(f) == f.destination # ""

\* A flight between two different, known airports
IsLeg(f) == f.origin # "" /\ f.destination # "" /\ f.origin # f.destination

Destinations == {filteredFlights[i].destination : i \in FlightIndexes} \ {""}

Origins == {filteredFlights[i].origin : i \in FlightIndexes} \ {""}

LandingsAt(d) == NumberOfFlights(LAMBDA f : f.destination = d)

LegsBetween(o, d) == NumberOfFlights(LAMBDA f : f.origin = o /\ f.destination = d)

\* The position of the first flight of the list that satisfies P
FirstFlight(P(_)) ==
    CHOOSE i \in FlightIndexes :
        P(filteredFlights[i]) /\ \A j \in 1..(i - 1) : ~P(filteredFlights[j])

\* The sum of the counts of a map or listing of <<key, count>> entries
CountSum(entries) == SeqSum([i \in 1..Len(entries) |-> entries[i][2]])

\* No key occurs twice in a map or listing
DistinctKeys(entries) ==
    \A i, j \in 1..Len(entries) : entries[i][1] = entries[j][1] => i = j

\* Entry i of a listing stands before entry j: larger count, or the same
\* count and first met earlier in the flight list
RanksBefore(ci, firsti, cj, firstj) == ci > cj \/ (ci = cj /\ firsti < firstj)

UTCDays == {UTCDateString(filteredFlights[i].landing_time) : i \in FlightIndexes}

FirstDay == CHOOSE d \in UTCDays : \A e \in UTCDays : d <= e

LastDay == CHOOSE d \in UTCDays : \A e \in UTCDays : e <= d

FlightsOnDay(day) ==
    {i \in FlightIndexes : UTCDateString(filteredFlights[i].landing_time) = day}

----------------------------------------------------------------------------
(* C1 *)

\* C1: the seven buckets of landingsByDay sum to totalFlightsProcessed.
\* The statement of the claim; the code violates it for a row without
\* destination.
C1_DayBucketsSumToTotal ==
    SeqSum(displayedData.landingsByDay) = displayedData.totalFlightsProcessed

(* C2 *)

\* C2: the landing counts of all destinations sum to totalFlightsProcessed.
\* The statement of the claim; the code violates it for a row without
\* destination.
C2_DestinationCountsSumToTotal ==
    CountSum(displayedData.airportCounts) = displayedData.totalFlightsProcessed

(* C3 *)

\* C3: for a non-empty flight list, under any filters, the daily series has
\* exactly one entry per UTC day from the day of the earliest landing to the
\* day of the latest, ascending, without gaps, and numberOfDays is its length.
C3_DailySeriesSpansDays ==
    filteredFlights # <<>> =>
        /\ displayedData.dailyLabels =
               [i \in 1..(LastDay - FirstDay + 1) |-> FirstDay + i - 1]
        /\ displayedData.numberOfDays = LastDay - FirstDay + 1
        /\ Len(displayedData.dailyUniqueAircraftCounts) = LastDay - FirstDay + 1
        /\ Len(displayedData.dailyTotalLandings) = LastDay - FirstDay + 1

\* C3 witness: an airport filter is shown, and the series has a day without
\* any flight between two days with flights
C3_Witness ==
    /\ Settled
    /\ selectedAirport # NoFilterAirport
    /\ displayedData.numberOfDays >= 3
    /\ \E i \in 2..(displayedData.numberOfDays - 1) :
           FlightsOnDay(displayedData.dailyLabels[i]) = {}

(* C4 *)

LegName(f) == f.origin \o "-" \o f.destination

\* A flight with a known origin and a known destination
HasRoute(f) == f.origin # "" /\ f.destination # ""

\* The flights listed under a name, among those that count for a pair
FlightsOfPair(name, Counts(_)) ==
    {i \in FlightIndexes :
        Counts(filteredFlights[i]) /\ LegName(filteredFlights[i]) = name}

\* The names of the pairs of the flights that count for a pair
PairNames(Counts(_)) ==
    {LegName(filteredFlights[i]) :
        i \in {j \in FlightIndexes : Counts(filteredFlights[j])}}

\* The pairs flown between two different airports, and the flights of one
Legs == PairNames(IsLeg)

FlightsOfLeg(name) == FlightsOfPair(name, IsLeg)

\* The least element of a non-empty set of positions
Least(S) == CHOOSE i \in S : \A j \in S : i <= j

\* sortedPairs lists the pairs of the flights that count for a pair, each
\* with the number of its flights (o-d apart from d-o), by count descending
\* and, for equal counts, in the order first met, truncated to 20 entries;
\* the landing counts of the airports are not touched by the pair counts
PairListing(Counts(_)) ==
    LET listing == displayedData.sortedPairs
        pairs == PairNames(Counts)
        listed == {listing[i][1] : i \in 1..Len(listing)}
        first == [name \in pairs |-> Least(FlightsOfPair(name, Counts))]
        count == [name \in pairs |-> Cardinality(FlightsOfPair(name, Counts))]
    IN  /\ Len(listing) = Min(Cardinality(pairs), TopListLimit)
        /\ DistinctKeys(listing)
        /\ listed \subseteq pairs
        /\ \A i \in 1..Len(listing) : listing[i][2] = count[listing[i][1]]
        /\ \A i, j \in 1..Len(listing) :
               i < j => RanksBefore(listing[i][2], first[listing[i][1]],
                                    listing[j][2], first[listing[j][1]])
        /\ \A other \in pairs \ listed :
               \A i \in 1..Len(listing) :
                   RanksBefore(listing[i][2], first[listing[i][1]],
                               count[other], first[other])
        /\ \A i \in 1..Len(displayedData.airportCounts) :
               displayedData.airportCounts[i][2] =
                   LandingsAt(displayedData.airportCounts[i][1])

\* C5, as stated: sortedPairs holds, for each ordered origin-destination
\* pair (o, d), the number of flights with that origin and destination, by
\* count descending, ties in the order first met, truncated to 20 entries.
\* Violated by a flight whose destination is its origin: it is in no pair.
C5_EveryRouteListed == PairListing(HasRoute)

\* C5, amended: the same for each ordered pair (o, d) of two different
\* airports; a flight whose origin is not given or is its destination
\* counts for no pair.
C5_SortedPairs == PairListing(IsLeg)

\* C5 witness: more than 20 pairs, the first listed with more flights than
\* the second, and the second as many as the third
C5_Witness ==
    LET listing == displayedData.sortedPairs
    IN  /\ Settled
        /\ Cardinality(Legs) > TopListLimit
        /\ Len(listing) = TopListLimit
        /\ listing[1][2] > listing[2][2]
        /\ listing[2][2] = listing[3][2]

(* C6 *)

\* The aircraft of a flight, written in lower case; "" when not given
AircraftOf(f) == toLowerCase(f.icao)

\* C6: for each day label, dailyTotalLandings is the number of flights of
\* the input that landed on that UTC day, and dailyUniqueAircraftCounts the
\* number of distinct aircraft among those flights.  The statement of the
\* claim; the code violates it for a row without destination.
C6_DailyCountsAreFlightsOfDay ==
    \A i \in 1..Len(displayedData.dailyLabels) :
        LET today == FlightsOnDay(displayedData.dailyLabels[i])
        IN  /\ displayedData.dailyTotalLandings[i] = Cardinality(today)
            /\ displayedData.dailyUniqueAircraftCounts[i] =
                   Cardinality({AircraftOf(filteredFlights[k]) : k \in today} \ {""})

(* C7 *)

\* C7: the daily landing counts sum to totalFlightsProcessed, and so do the
\* buckets of landingsByDay and of landingsByHour.  The statement of the
\* claim; the code violates it for a row without destination.
C7_DailySeriesSumsToTotal ==
    /\ SeqSum(displayedData.dailyTotalLandings) = displayedData.totalFlightsProcessed
    /\ SeqSum(displayedData.dailyTotalLandings) = SeqSum(displayedData.landingsByDay)
    /\ SeqSum(displayedData.dailyTotalLandings) = SeqSum(displayedData.landingsByHour)

(* C8 *)

KeyedHistograms(histograms, keys, n, FlightsOfKey(_)) ==
    /\ DistinctKeys(histograms)
    /\ ObjectKeySet(histograms) = keys
    /\ \A i \in 1..Len(histograms) :
           /\ DOMAIN histograms[i][2] = 1..n
           /\ \A b \in 1..n : histograms[i][2][b] >= 0
           /\ SeqSum(histograms[i][2]) = FlightsOfKey(histograms[i][1])

\* The overall histogram has n non-negative buckets, each the sum of that
\* bucket over the keyed histograms
SumOfHistograms(overall, histograms, n) ==
    /\ DOMAIN overall = 1..n
    /\ \A b \in 1..n :
           /\ overall[b] >= 0
           /\ overall[b] =
                  SeqSum([i \in 1..Len(histograms) |-> histograms[i][2][b]])

\* C9: every day-of-week histogram (overall, per destination, per pair) has
\* 7 non-negative buckets and every hour-of-day histogram 24; the buckets of
\* a destination sum to its landing count, those of a pair to its flight
\* count, and the overall histogram is the bucket-wise sum of the
\* per-destination histograms.
C9_Histograms ==
    /\ KeyedHistograms(displayedData.airportLandingsByDay, Destinations,
                       DaysPerWeek, LandingsAt)
    /\ KeyedHistograms(displayedData.airportLandingsByHour, Destinations,
                       HoursPerDay, LandingsAt)
    /\ KeyedHistograms(displayedData.pairLandingsByDay, Legs, DaysPerWeek,
                       LAMBDA name : Cardinality(FlightsOfLeg(name)))
    /\ KeyedHistograms(displayedData.pairLandingsByHour, Legs, HoursPerDay,
                       LAMBDA name : Cardinality(FlightsOfLeg(name)))
    /\ SumOfHistograms(displayedData.landingsByDay,
                       displayedData.airportLandingsByDay, DaysPerWeek)
    /\ SumOfHistograms(displayedData.landingsByHour,
                       displayedData.airportLandingsByHour, HoursPerDay)
    /\ \A i \in 1..Len(displayedData.airportLandingsByDay) :
           SeqSum(displayedData.airportLandingsByDay[i][2]) =
               Get(displayedData.airportCounts,
                   displayedData.airportLandingsByDay[i][1])
    /\ \A i \in 1..Len(displayedData.pairLandingsByDay) :
           SeqSum(displayedData.pairLandingsByDay[i][2]) =
               Get(displayedData.airportPairs,
                   displayedData.pairLandingsByDay[i][1])

\* C9 witness: two destinations, one of them with landings on two days of
\* the week and in two hours of the day, and a pair with a histogram
C9_Witness ==
    /\ Settled
    /\ Len(displayedData.airportLandingsByDay) >= 2
    /\ Len(displayedData.pairLandingsByHour) >= 1
    /\ \E i \in 1..Len(displayedData.airportLandingsByDay) :
           \E b, c \in 1..DaysPerWeek :
               /\ b # c
               /\ displayedData.airportLandingsByDay[i][2][b] >= 1
               /\ displayedData.airportLandingsByDay[i][2][c] >= 1
    /\ \E i \in 1..Len(displayedData.airportLandingsByHour) :
           \E b, c \in 1..HoursPerDay :
               /\ b # c
               /\ displayedData.airportLandingsByHour[i][2][b] >= 1
               /\ displayedData.airportLandingsByHour[i][2][c] >= 1

(* C10 *)

\* The value a counted flight carries in a field: the aircraft identifier in
\* lower case, the callsign and the registration without surrounding
\* blanks; "" when the flight does not carry the field
CallsignOf(f) == trim(f.callsign)

RegistrationOf(f) == trim(f.registration)

\* full lists every value that the flights with a destination carry, once,
\* with the number of those flights that carry it, counts non-increasing;
\* top is its first five entries, unique its length, and its counts sum to
\* the number of flights with a destination that carry the field
FrequencyListing(full, top, unique, Value(_)) ==
    LET carrying == {i \in FlightIndexes :
                        /\ HasDestination(filteredFlights[i])
                        /\ Value(filteredFlights[i]) # ""}
    IN  /\ \A i, j \in 1..Len(full) : i < j => full[i][2] >= full[j][2]
        /\ DistinctKeys(full)
        /\ ObjectKeySet(full) = {Value(filteredFlights[i]) : i \in carrying}
        /\ \A i \in 1..Len(full) :
               full[i][2] =
                   Cardinality({k \in carrying :
                                   Value(filteredFlights[k]) = full[i][1]})
        /\ top = Take(full, TopIdLimit)
        /\ unique = Len(full)
        /\ CountSum(full) = Cardinality(carrying)

\* C10: for aircraft identifiers, callsigns and registrations the full
\* listing is sorted by frequency, non-increasing, and holds each distinct
\* value once; the top-5 listing is its first five entries, the unique count
\* its length, and its frequencies sum to the number of counted rows (rows
\* with a destination) that carry the field.
C10_FrequencyListings ==
    /\ FrequencyListing(displayedData.allSortedIcaos, displayedData.topIcaos,
                        displayedData.uniqueAircraftCount, AircraftOf)
    /\ FrequencyListing(displayedData.allSortedCallsigns,
                        displayedData.topCallsigns,
                        displayedData.uniqueCallsignCount, CallsignOf)
    /\ FrequencyListing(
           [i \in 1..Len(displayedData.allSortedRegistrations) |->
               <<displayedData.allSortedRegistrations[i].registration,
                 displayedData.allSortedRegistrations[i].count>>],
           displayedData.topRegistrations,
           displayedData.uniqueRegistrationCount, RegistrationOf)

\* C10 witness: more than five aircraft, callsigns and registrations, in each
\* listing the first more frequent than the last
C10_Witness ==
    /\ Settled
    /\ Len(displayedData.allSortedIcaos) > TopIdLimit
    /\ Len(displayedData.allSortedCallsigns) > TopIdLimit
    /\ Len(displayedData.allSortedRegistrations) > TopIdLimit
    /\ Len(displayedData.topIcaos) = TopIdLimit
    /\ displayedData.topIcaos[1][2] > displayedData.topIcaos[TopIdLimit][2]
    /\ displayedData.topCallsigns[1][2] > displayedData.topCallsigns[TopIdLimit][2]
    /\ displayedData.topRegistrations[1][2]
           > displayedData.topRegistrations[TopIdLimit][2]

----------------------------------------------------------------------------
(* C11, C12: one upload *)

\* One file was selected and its Papa.parse callback has run
Uploaded == selected = 1 /\ pending = {}

\* How often x occurs in the list
Occurrences(list, x) == Cardinality({i \in 1..Len(list) : list[i] = x})

\* Some row of the file has a landing_time that is present and parseable
HasParseableRow(file) ==
    \E i \in 1..Len(file.rows) : file.rows[i].landing_time >= 0

\* C11: processInitialData skips malformed rows without failing: when at
\* least one row of the file has a parseable landing_time, no error is set
\* and rawFlights holds exactly the rows whose landing_time is present and
\* parseable, each as often as the file holds it, and no other row.
C11_MalformedRowsSkipped ==
    (Uploaded /\ files[1].readable /\ files[1].header /\ HasParseableRow(files[1]))
    => /\ error = ""
       /\ initialData # <<>>
       /\ \A row \in Range(files[1].rows) \cup Range(RawFlights) :
              Occurrences(RawFlights, row) =
                  IF row.landing_time >= 0
                  THEN Occurrences(files[1].rows, row) ELSE 0

\* C11 witness: a file with an unparseable row between parseable ones, one
\* of them twice, was uploaded
C11_Witness ==
    /\ Uploaded
    /\ Len(files[1].rows) = MaxRows
    /\ files[1].rows[1] = files[1].rows[3]
    /\ files[1].rows[1].landing_time >= 0
    /\ files[1].rows[2].landing_time < 0
    /\ Len(RawFlights) = 2

\* No data rows, a required column missing, no row with a parseable landing
\* time, or a parser error
CompletelyInvalid(file) ==
    \/ ~file.readable
    \/ file.rows = <<>>
    \/ ~file.header
    \/ ~HasParseableRow(file)

\* C12: the upload of a completely invalid CSV ends with the error string
\* set, loading false and initialData null.
C12_InvalidFileSurfacesError ==
    (Uploaded /\ CompletelyInvalid(files[1]))
    => error # "" /\ ~loading /\ initialData = <<>>

\* C12 witness: the upload of a file whose rows all lack a parseable landing
\* time, and of a file without a required column, has ended
C12_Witness ==
    /\ Uploaded
    /\ error # ""
    /\ files[1].readable
    /\ files[1].rows # <<>>
    /\ ~files[1].header \/ ~HasParseableRow(files[1])

----------------------------------------------------------------------------
(* C13 *)

\* The flight satisfies every active filter: its landing time lies within
\* the selected range of local calendar days, its destination is the
\* selected airport, its origin and destination make the selected pair
SatisfiesFilters(f) ==
    /\ dateRange # <<>> =>
           /\ getCalendarDate(f.landing_time) >= dateRange[1]
           /\ getCalendarDate(f.landing_time) <= dateRange[2]
    /\ selectedAirport # NoFilterAirport => f.destination = selectedAirport
    /\ selectedPair # NoFilterPair =>
           PairKey(f.origin, f.destination) = selectedPair

\* The aggregate counts nothing: no flight, no day, empty listings and
\* histograms of zeros
IsZeroAggregate(agg) ==
    /\ agg.totalFlightsProcessed = 0
    /\ agg.numberOfDays = 0
    /\ agg.dailyLabels = <<>>
    /\ agg.uniqueAircraftCount = 0
    /\ agg.uniqueCallsignCount = 0
    /\ agg.uniqueRegistrationCount = 0
    /\ agg.sortedAirports = <<>>
    /\ agg.sortedPairs = <<>>
    /\ agg.allAirports = {}
    /\ agg.allPairs = {}
    /\ agg.landingsByDay = Zeros(DaysPerWeek)
    /\ agg.landingsByHour = Zeros(HoursPerDay)

\* C13: once rendering has settled, the flights shown are exactly the raw
\* flights that satisfy every active filter, in their order, and the
\* displayed aggregate is aggregateFlightData of them; the raw list is the
\* one the upload produced, whatever filters were set since; and an empty
\* list of flights shown comes with the all-zero aggregate.
C13_FiltersSelectSubset ==
    /\ ~dirty =>
           /\ filteredFlights = SelectSeq(RawFlights, SatisfiesFilters)
           /\ displayedData =
                  aggregateFlightData(SelectSeq(RawFlights, SatisfiesFilters))
    /\ initialData # <<>> =>
           RawFlights = processInitialData(files[selected].rows).rawFlights
    /\ filteredFlights = <<>> => IsZeroAggregate(displayedData)

\* C13 witness: a date range and an airport are selected and leave out
\* flights of the file; in another state the date range leaves out all
C13_Witness ==
    /\ Settled
    /\ dateRange # <<>>
    /\ \/ /\ selectedAirport # NoFilterAirport
          /\ filteredFlights # <<>>
          /\ \E i \in 1..Len(RawFlights) :
                 /\ RawFlights[i].destination = selectedAirport
                 /\ ~SatisfiesFilters(RawFlights[i])
          /\ \E i \in 1..Len(RawFlights) :
                 /\ RawFlights[i].destination # selectedAirport
                 /\ getCalendarDate(RawFlights[i].landing_time) = dateRange[1]
       \/ /\ selectedPair # NoFilterPair
          /\ Len(filteredFlights) < Len(RawFlights)
          /\ filteredFlights # <<>>

\* C13 second witness: the selected date range holds no flight of the file
C13_EmptyRange ==
    /\ Settled
    /\ RawFlights # <<>>
    /\ dateRange # <<>>
    /\ filteredFlights = <<>>

----------------------------------------------------------------------------
(* C17 *)

\* C17: the app never holds a destination filter and a pair filter at the
\* same time: selectedAirport is 'all' or selectedPair is 'none' in every
\* settled state.
C17_OneSelectionAtATime ==
    ~dirty => (selectedAirport = NoFilterAirport \/ selectedPair = NoFilterPair)

\* C17 witness: a pair is selected and shown while the airport combo box
\* offers the destination of its flights and a date range is set
C17_Witness ==
    /\ Settled
    /\ selectedPair # NoFilterPair
    /\ dateRange # <<>>
    /\ filteredFlights # <<>>
    /\ filteredFlights[1].destination \in TopChartsData.allAirports

----------------------------------------------------------------------------
(* C20 *)

\* The landing times of the rows of the file that have a parseable one
ValidTimes(file) ==
    {file.rows[i].landing_time : i \in 1..Len(file.rows)} \cap Nat

\* The local calendar date of a time
LocalDay(t) == (t + tz) \div HoursPerDay

\* C20: after a single successful upload and before any other event, the
\* airport filter is 'all', the pair filter 'none', the date range runs from
\* the local calendar date of the earliest landing to that of the latest,
\* the flights shown are all raw flights, and totalFlightsProcessed is the
\* number of rows of the file with a parseable landing time.
C20_UploadShowsEverything ==
    (Uploaded /\ initialData # <<>> /\ ~dirty)
    => /\ selectedAirport = NoFilterAirport
       /\ selectedPair = NoFilterPair
       /\ dateRange # <<>>
       /\ \A t \in ValidTimes(files[1]) :
              LocalDay(t) >= dateRange[1] /\ LocalDay(t) <= dateRange[2]
       /\ \E t \in ValidTimes(files[1]) : LocalDay(t) = dateRange[1]
       /\ \E t \in ValidTimes(files[1]) : LocalDay(t) = dateRange[2]
       /\ filteredFlights = RawFlights
       /\ displayedData.totalFlightsProcessed =
              Cardinality({i \in 1..Len(files[1].rows) :
                              files[1].rows[i].landing_time >= 0})

\* C20 witness: the file shown has landings on several local days, the
\* latest after the first hour of its day, and the rows are not in time order
C20_Witness ==
    /\ Uploaded
    /\ Settled
    /\ dateRange[1] < dateRange[2]
    /\ getHours(RawFlights[Len(RawFlights)].landing_time) > 0
    /\ files[1].rows[1].landing_time > files[1].rows[2].landing_time
    /\ displayedData.totalFlightsProcessed = MaxRows

----------------------------------------------------------------------------
(* C18, C19: several uploads *)

\* C18: an error message and loaded data are never present together,
\* whatever the order in which files are selected and their parse
\* callbacks arrive: error is non-null only if initialData is null.
C18_ErrorExcludesData == error # "" => initialData = <<>>

\* Every file was selected and every parse callback has run
AllUploadsDone == selected = Len(files) /\ selected > 0 /\ pending = {}

\* initialData, dateRange and error are the outcome of the upload of the file
OutcomeOf(file) ==
    IF CompletelyInvalid(file)
    THEN error # "" /\ initialData = <<>>
    ELSE /\ error = ""
         /\ initialData = <<processInitialData(file.rows)>>
         /\ dateRange = <<getCalendarDate(initialData[1].earliestTime),
                          getCalendarDate(initialData[1].latestTime)>>

\* C19: once every parse callback has run, initialData, date range, error
\* and loading are those of the most recently selected file; and loading is
\* false only when no parse is outstanding.
C19_LastUploadWins ==
    /\ AllUploadsDone => (OutcomeOf(files[selected]) /\ ~loading)
    /\ ~loading => pending = {}

----------------------------------------------------------------------------
(* C14, C15, C16: the landing-visits version *)

\* The landing-visits version shows the result of processData
VisitsShown == visitsApp.data # <<>>

VisitRows == visits.rows

\* The times of the rows that have a parseable one
ValidVisitTimes == {VisitRows[i].time : i \in 1..Len(VisitRows)} \cap Nat

Earliest(times) == CHOOSE t \in times : \A u \in times : t <= u

Latest(times) == CHOOSE t \in times : \A u \in times : t >= u

NonDecreasing(times) ==
    \A i, j \in 1..Len(times) : i < j => times[i] <= times[j]

\* The rows of a landing-visits file as rows of a flights file
AsFlights(visitRows) ==
    [i \in 1..Len(visitRows) |->
        [landing_time |-> visitRows[i].time, icao |-> visitRows[i].icao24,
         origin |-> "", destination |-> visitRows[i].airportId,
         callsign |-> visitRows[i].callSign, registration |-> ""]]

\* C14: the rows are processed in non-decreasing order of timestamp
\* whatever their order in the CSV, and the reported earliest and latest
\* times are the least and the greatest timestamp of the rows with a
\* parseable one; for processData, and for processInitialData on the
\* same rows.
C14_SortedWithExtremes ==
    VisitsShown =>
        /\ NonDecreasing([i \in 1..Len(ValidVisits(VisitRows)) |->
                             ValidVisits(VisitRows)[i].time])
        /\ visitsApp.data[1].earliestTime = Earliest(ValidVisitTimes)
        /\ visitsApp.data[1].latestTime = Latest(ValidVisitTimes)
        /\ LET initial == processInitialData(AsFlights(VisitRows))
           IN  /\ NonDecreasing([i \in 1..Len(initial.rawFlights) |->
                                    initial.rawFlights[i].landing_time])
               /\ initial.earliestTime = Earliest(ValidVisitTimes)
               /\ initial.latestTime = Latest(ValidVisitTimes)

\* The rows that processData counts as landings: time, aircraft and airport
\* are present
Landings ==
    {i \in 1..Len(VisitRows) : /\ VisitRows[i].time >= 0
                               /\ VisitRows[i].icao24 # ""
                               /\ VisitRows[i].airportId # ""}

\* The earlier landings of the aircraft of landing i
EarlierLandings(i) ==
    {j \in Landings : /\ VisitRows[j].icao24 = VisitRows[i].icao24
                      /\ VisitRows[j].time < VisitRows[i].time}

\* The landing of the same aircraft immediately before landing i
PrecedingLanding(i) ==
    CHOOSE j \in EarlierLandings(i) :
        \A k \in EarlierLandings(i) : VisitRows[k].time <= VisitRows[j].time

\* The landings at b whose aircraft landed at a immediately before
LandingsAfter(a, b) ==
    {i \in Landings : /\ VisitRows[i].airportId = b
                      /\ EarlierLandings(i) # {}
                      /\ VisitRows[PrecedingLanding(i)].airportId = a}

VisitAirports == {VisitRows[i].airportId : i \in Landings}

\* The same rows in the opposite order
Reversed(list) == [i \in 1..Len(list) |-> list[Len(list) + 1 - i]]

\* The count of every key of a map
CountOf(obj) == [key \in ObjectKeySet(obj) |-> Get(obj, key)]

\* The pair counts are those of the landings in time order, and the same
\* for another order of the rows
PairsFollowTimeOrder ==
    LET pairs == visitsApp.data[1].airportPairs
    IN  /\ DistinctKeys(pairs)
        /\ ObjectKeySet(pairs) =
               {PairKey(a, b) : <<a, b>> \in
                   {ab \in VisitAirports \X VisitAirports :
                       ab[1] # ab[2] /\ LandingsAfter(ab[1], ab[2]) # {}}}
        /\ \A a, b \in VisitAirports :
               a # b => GetOr(pairs, PairKey(a, b), 0)
                            = Cardinality(LandingsAfter(a, b))
        /\ CountOf(processData(Reversed(VisitRows)).airportPairs) = CountOf(pairs)

\* No aircraft has two landings with the same timestamp
DistinctLandingTimes ==
    \A i, j \in Landings :
        (i # j /\ VisitRows[i].icao24 = VisitRows[j].icao24)
            => VisitRows[i].time # VisitRows[j].time

\* C15 as stated: the pair A-B is counted once for each landing of an
\* aircraft at B whose immediately preceding landing, in time order, was at
\* a different airport A, independent of the order of the rows in the CSV.
C15_PairsFromSortedLandings == VisitsShown => PairsFollowTimeOrder

\* C15 as amended: the same, for files in which no aircraft has two
\* landings with the same timestamp.
C15_PairsFromDistinctTimes ==
    (VisitsShown /\ DistinctLandingTimes) => PairsFollowTimeOrder

\* C15 witness: the rows are not in time order, an aircraft lands twice in
\* a row at one airport and then at another
C15_Witness ==
    /\ VisitsShown
    /\ DistinctLandingTimes
    /\ Len(VisitRows) = MaxVisits
    /\ VisitRows[1].time > VisitRows[2].time
    /\ visitsApp.data[1].airportPairs # <<>>
    /\ \E i \in Landings :
           /\ EarlierLandings(i) # {}
           /\ VisitRows[PrecedingLanding(i)].airportId = VisitRows[i].airportId

\* The callsigns that may replace those of the file
OtherCallSigns == {"", "Y2"}

\* The rows with the callsigns given, one for each row
WithCallSigns(visitRows, callSigns) ==
    [i \in 1..Len(visitRows) |-> [visitRows[i] EXCEPT !.callSign = callSigns[i]]]

\* C16: columns other than time, icao24 and airportId are ignored: a file
\* that differs from the one uploaded only in its callSign values gives the
\* same result of processData.
C16_CallSignIgnored ==
    VisitsShown =>
        \A callSigns \in [1..Len(VisitRows) -> OtherCallSigns] :
            processData(WithCallSigns(VisitRows, callSigns)) = visitsApp.data[1]

----------------------------------------------------------------------------
(* C24 *)

\* C24: on every day of the daily series the unique-aircraft count exceeds
\* neither the total-landing count of that day nor the uniqueAircraftCount
\* of the aggregate, also for rows without destination or aircraft
\* identifier.
C24_DailyUniqueWithinTotals ==
    \A i \in 1..Len(displayedData.dailyLabels) :
        /\ displayedData.dailyUniqueAircraftCounts[i]
               <= displayedData.dailyTotalLandings[i]
        /\ displayedData.dailyUniqueAircraftCounts[i]
               <= displayedData.uniqueAircraftCount

----------------------------------------------------------------------------
(* C25 *)

\* C25: with a date range selected, every day label of the displayed daily
\* series lies within the range, and numberOfDays is at most the number of
\* calendar days of the range, in every time zone.
C25_SeriesWithinDateRange ==
    (Settled /\ dateRange # <<>>)
    => /\ \A i \in 1..Len(displayedData.dailyLabels) :
              /\ displayedData.dailyLabels[i] >= dateRange[1]
              /\ displayedData.dailyLabels[i] <= dateRange[2]
       /\ displayedData.numberOfDays <= dateRange[2] - dateRange[1] + 1

----------------------------------------------------------------------------
(* C21 *)

\* No flight of the current filters lands at the selected airport
StaleAirport ==
    /\ selectedAirport # NoFilterAirport
    /\ selectedAirport \notin aggregateFlightData(FilteredFlightsMemo).allAirports

\* No flight of the current filters flies the selected pair
StalePair ==
    /\ selectedPair # NoFilterPair
    /\ selectedPair \notin aggregateFlightData(FilteredFlightsMemo).allPairs

\* C21: a selection that no flight matches any more is reset to 'all' /
\* 'none', with its input text cleared, by the next render, which comes
\* before any other event; a render that asks for another leaves both
\* selections at 'all' and 'none', so that the next one, with nothing stale,
\* is the last; and in every settled state a
\* selected airport occurs among the destinations, and a selected pair
\* among the pairs, of the displayed aggregate.
C21_StaleSelectionReset ==
    /\ [](~dirty =>
            /\ selectedAirport # NoFilterAirport
                   => selectedAirport \in displayedData.allAirports
            /\ selectedPair # NoFilterPair
                   => selectedPair \in displayedData.allPairs)
    /\ [][/\ (dirty /\ StaleAirport)
               => (selectedAirport' = NoFilterAirport /\ airportInputValue' = "")
          /\ (dirty /\ StalePair)
               => (selectedPair' = NoFilterPair /\ pairInputValue' = "")
          /\ (dirty /\ dirty')
               => (selectedAirport' = NoFilterAirport /\ selectedPair' = NoFilterPair)
          /\ (dirty /\ ~StaleAirport /\ ~StalePair) => ~dirty']_vars

\* C21 witness: a change of the date range has left no flight for the
\* selected airport, whose name is still the text of the combo box
C21_Witness ==
    /\ StaleAirport
    /\ initialData # <<>>
    /\ dateRange # <<>>
    /\ airportInputValue = selectedAirport

\* C21 second witness: the same for a selected pair
C21_StalePairReached ==
    /\ StalePair
    /\ initialData # <<>>
    /\ dateRange # <<>>
    /\ pairInputValue = selectedPair

----------------------------------------------------------------------------
(* C22 *)

\* The text a combo box shows for a selection: the selected value, and
\* nothing for the default
TextOfAirport == IF selectedAirport = NoFilterAirport THEN "" ELSE selectedAirport

TextOfPair == IF selectedPair = NoFilterPair THEN "" ELSE selectedPair

\* C22: once a click, a combo-box selection, a map background click or an
\* upload has set the selections, the text of each combo box equals its
\* selected value (empty for "all" and "none") until the user types into
\* that box again; an update scheduled by earlier typing does not replace it.
\* The statement of the claim; the code violates it, since no handler
\* cancels a scheduled update.
C22_InputTextShowsSelection ==
    /\ "airport" \notin typedSince => airportInputValue = TextOfAirport
    /\ "pair" \notin typedSince => pairInputValue = TextOfPair

\* The text differs from the selection without a scheduled update having
\* run: the combo-box handler looked the key up in the displayed aggregate
C22_TextLostWithoutTyping ==
    (airportInputTimer = <<>> /\ pairInputTimer = <<>> /\ typedSince = {})
        => C22_InputTextShowsSelection

\* The text typed before a click on the bar of airport "A" is shown after
\* the click, the airport still selected
C22_StaleTextShown ==
    /\ ~dirty
    /\ selectedAirport = "A"
    /\ "airport" \notin typedSince
    /\ airportInputValue = "x"

----------------------------------------------------------------------------
(* C23 *)

\* C23: whatever pages were turned, whether the details were shown or hidden
\* and however the displayed data changed, the page of each detailed table
\* lies between 1 and the number of pages of the table when the table has
\* a page.  The statement of the claim; the code violates it, since the
\* page is kept when the list shrinks.
C23_PageWithinTotalPages ==
    StatsShown =>
        /\ CallsignTotalPages >= 1 => callsignPage \in 1..CallsignTotalPages
        /\ RegistrationTotalPages >= 1
               => registrationPage \in 1..RegistrationTotalPages

\* The callsign table is shown with rows to list and lists none
C23_EmptyPageShown ==
    /\ StatsShown
    /\ showDetailedStats
    /\ Len(displayedData.allSortedCallsigns) > 0
    /\ Paginated(displayedData.allSortedCallsigns, callsignPage) = <<>>

====
